---- MODULE Spec2Model ----
(***************************************************************************)
(* Model of src/randlava.py: the generator generate_secure_hash, driven by *)
(* main, over a camera that is the environment (specification Spec); and   *)
(* of src/macos_wallpaper_shuffle.py: main, over the image directory, the  *)
(* desktop picture and the notifier (specifications SpecW, SpecWFair).     *)
(* Each specification runs one program and leaves the other's variables    *)
(* alone.                                                                  *)
(*                                                                         *)
(* A frame is a grid of h x w samples (one sample per pixel; the colour    *)
(* axis of a real frame has length 3, is never sliced by crop_frame and is *)
(* never abbreviated by array2string, so it is left out).  A frame is the  *)
(* record [none, h, w, lit]: lit is the set of <<row, col, value>> of the   *)
(* samples that are not 0.  None is what cam.read() returns for the frame  *)
(* when it fails.                                                          *)
(***************************************************************************)
EXTENDS Integers, Sequences, FiniteSets, TLC

VARIABLES
    pc,           \* position of the process: the line of randlava.py that runs next
    cam,          \* cv2.VideoCapture: "none", "failed" (not opened), "open", "released"
    mode,         \* <<height, width>> of the frames the opened camera produces
    works,        \* local of generate_secure_hash (line 27, 33)
    frame,        \* local of generate_secure_hash (line 27, 30, 33)
    string,       \* local of generate_secure_hash (line 35)
    res,          \* local of generate_secure_hash (line 36)
    shown,        \* what cv2.imshow("Cam", ...) displayed last (line 32)
    err,          \* the exception that ended the process, "" if none
    delivered,    \* history: what main printed, with the frame of that pull
    framesRead,   \* history: the frames cam.read() returned with success
    cropIn,       \* history: the arguments crop_frame was called with
    readAttempts, \* history: number of cam.read() calls
    failedReads,  \* history: number of cam.read() calls that reported failure
    releaseCalls, \* history: number of cam.release() calls
    cv2HasNamedWindows, \* whether the cv2 binding resolves the name used on line 21
    frameSeq,     \* history: which cam.read() call (1, 2, ...) gave what frame holds
    \* macos_wallpaper_shuffle.py
    wpc,          \* position of the process: the line of main that runs next
    restore,      \* args.restore
    analyze,      \* args.analyze
    current_wallpaper, \* local of main (line 51), "unset" while unbound
    desktop,      \* Finder's desktop picture
    dirExists,    \* args.path is a directory
    dir,          \* the image files in args.path
    images,       \* local of main (line 53, 82)
    total_wallpapers,  \* local of main (line 54, 86)
    image,        \* local of main (line 70), "unset" while unbound
    wallpaper_counter, \* local of main (line 60, 78)
    img_counts,   \* local of main (line 62, 79): uses per image, 0 for an absent key
    werr,         \* the exception that ended the process, "" if none
    waited,       \* history: time.sleep ran since the last attempt began
    looped,       \* history: the while loop on line 67 was entered
    restoreCalls, \* history: number of times line 101 set the desktop picture
    interrupts    \* history: number of operator interrupts

wpVars == <<wpc, restore, analyze, current_wallpaper, desktop, dirExists, dir,
            images, total_wallpapers, image, wallpaper_counter, img_counts,
            werr, waited, looped, restoreCalls, interrupts>>

lavaVars == <<pc, cam, mode, works, frame, string, res, shown, err, delivered,
              framesRead, cropIn, readAttempts, failedReads, releaseCalls,
              cv2HasNamedWindows, frameSeq>>

vars == <<lavaVars, wpVars>>

----------------------------------------------------------------------------
(* Bounds of the model *)

\* cam.read() calls in one session
MaxReads == 3

\* wallpapers set in one session
MaxShuffles == 2

\* operator interrupts in one session
MaxInterrupts == 2

(* Constants of the program *)

\* img[100:900, 200:350]
CropTop == 100
CropBottom == 900
CropLeft == 200
CropRight == 350

\* np.array2string's defaults (numpy print options), in force on line 17
Threshold == 1000
EdgeItems == 3

----------------------------------------------------------------------------
(* Frames *)

None == [none |-> TRUE, h |-> 0, w |-> 0, lit |-> {}]

Image(hh, ww, l) == [none |-> FALSE, h |-> hh, w |-> ww, lit |-> l]

Min(a, b) == IF a < b THEN a ELSE b

Size(img) == img.h * img.w

\* img[r, c]
Px(img, r, c) ==
    IF \E t \in img.lit : t[1] = r /\ t[2] = c
    THEN (CHOOSE t \in img.lit : t[1] = r /\ t[2] = c)[3]
    ELSE 0

\* The resolutions a camera may be opened with.
Modes == { <<1000, 1000>>, <<500, 300>>, <<50, 100>>, <<2, 3>> }

\* The sample patterns the camera may deliver at a resolution.
Patterns(m) ==
    IF m = <<1000, 1000>>
    THEN { {}, {<<500, 300, 12>>}, {<<0, 0, 1>>}, {<<100, 200, 7>>} }
    ELSE IF m = <<500, 300>>
    THEN { {}, {<<0, 0, 1>>}, {<<250, 250, 9>>} }
    ELSE IF m = <<50, 100>>
    THEN { {}, {<<0, 0, 1>>} }
    ELSE { {}, {<<0, 1, 12>>}, {<<1, 2, 5>>} }

CameraFrames(m) == { Image(m[1], m[2], l) : l \in Patterns(m) }

----------------------------------------------------------------------------
(* hash, line 6-8.  The Whirlpool digest is modelled as a collision-free   *)
(* tag of the bytes it is given: equal inputs give equal digests, and the  *)
(* model never equates the digests of different inputs.                    *)

hash(s) == "whirlpool:" \o s

----------------------------------------------------------------------------
(* crop_frame, line 12-13: numpy basic slicing.  A slice bound beyond the  *)
(* axis is clipped to the axis length, and no error is raised.             *)

SliceLo(n, lo) == Min(lo, n)

SliceHi(n, hi) == Min(hi, n)

crop_frame(img) ==
    LET r0 == SliceLo(img.h, CropTop)
        r1 == SliceHi(img.h, CropBottom)
        c0 == SliceLo(img.w, CropLeft)
        c1 == SliceHi(img.w, CropRight)
    IN  Image(r1 - r0, c1 - c0,
              { <<t[1] - r0, t[2] - c0, t[3]>> :
                  t \in { u \in img.lit : /\ r0 <= u[1] /\ u[1] < r1
                                          /\ c0 <= u[2] /\ u[2] < c1 } })

\* The rectangle lies within the frame.
Fits(img) == img.h >= CropBottom /\ img.w >= CropRight

----------------------------------------------------------------------------
(* img_to_string, line 16-18: np.array2string(img, separator="").          *)
(* An array of more than Threshold samples is summarized: on every axis    *)
(* longer than 2 * EdgeItems only the first and the last EdgeItems entries *)
(* are printed, with "..." between them.  Every printed sample is padded   *)
(* to the width of the widest printed sample.  The rows of the modelled    *)
(* frames are shorter than numpy's line width, so no line is wrapped.      *)

DigitStr == <<"0", "1", "2", "3", "4", "5", "6", "7", "8", "9">>

RECURSIVE IntStr(_)
IntStr(n) == IF n < 10 THEN DigitStr[n + 1]
             ELSE IntStr(n \div 10) \o DigitStr[(n % 10) + 1]

RECURSIVE PadLeft(_, _)
PadLeft(s, k) == IF Len(s) >= k THEN s ELSE PadLeft(" " \o s, k)

\* The indices printed on an axis of length n, in order; -1 stands for "...".
Axis(n, summary) ==
    IF summary /\ 2 * EdgeItems < n
    THEN [i \in 1..(2 * EdgeItems + 1) |->
            IF i <= EdgeItems THEN i - 1
            ELSE IF i = EdgeItems + 1 THEN -1
            ELSE n - (2 * EdgeItems + 1 - i) - 1]
    ELSE [i \in 1..n |-> i - 1]

Range(f) == { f[i] : i \in DOMAIN f }

Max(S) == CHOOSE x \in S : \A y \in S : y <= x

\* IntegerFormat: the width of the widest sample among those printed.
FormatWidth(img, rows, cols) ==
    Max({ Len(IntStr(Px(img, r, c))) :
            r \in Range(rows) \ {-1}, c \in Range(cols) \ {-1} })

RECURSIVE RowItems(_, _, _, _, _)
RowItems(img, r, cols, wd, i) ==
    IF i > Len(cols) THEN ""
    ELSE (IF cols[i] = -1 THEN "..."
          ELSE PadLeft(IntStr(Px(img, r, cols[i])), wd))
         \o RowItems(img, r, cols, wd, i + 1)

RowStr(img, r, cols, wd) == "[" \o RowItems(img, r, cols, wd, 1) \o "]"

RECURSIVE RowLines(_, _, _, _, _)
RowLines(img, rows, cols, wd, i) ==
    IF i > Len(rows) THEN ""
    ELSE (IF i = 1 THEN "" ELSE "\n ")
         \o (IF rows[i] = -1 THEN "..." ELSE RowStr(img, rows[i], cols, wd))
         \o RowLines(img, rows, cols, wd, i + 1)

img_to_string(img) ==
    IF Size(img) = 0 THEN "[]"
    ELSE LET summary == Size(img) > Threshold
             rows == Axis(img.h, summary)
             cols == Axis(img.w, summary)
             wd == FormatWidth(img, rows, cols)
         IN  "[" \o RowLines(img, rows, cols, wd, 1) \o "]"

\* np.array2string reads a.size of its argument: None has no such attribute.
ArrayToStringRaisesNot(img) == FALSE

ArrayToStringRaises(img) == img.none

----------------------------------------------------------------------------
(* The process: main (line 43-47) pulling generate_secure_hash (line 20-40) *)

\* The process has ended: SystemExit, an uncaught exception, or an interrupt.
Terminal == { "exited", "crashed", "interrupted" }

\* The file names that may appear in the image directory.
ImageNames == {"a.png", "b.png"}

NoCounts == [n \in ImageNames |-> 0]

\* The wallpaper script is not running.
WpOff ==
    /\ wpc = "off"
    /\ restore = FALSE
    /\ analyze = FALSE
    /\ current_wallpaper = "unset"
    /\ desktop = "initial.png"
    /\ dirExists = FALSE
    /\ dir = {}
    /\ images = {}
    /\ total_wallpapers = 0
    /\ image = "unset"
    /\ wallpaper_counter = 0
    /\ img_counts = NoCounts
    /\ werr = ""
    /\ waited = TRUE
    /\ looped = FALSE
    /\ restoreCalls = 0
    /\ interrupts = 0

Init ==
    /\ WpOff
    /\ pc = "L21"
    /\ cam = "none"
    /\ mode = <<0, 0>>
    /\ works = FALSE
    /\ frame = None
    /\ string = ""
    /\ res = ""
    /\ shown = None
    /\ err = ""
    /\ delivered = << >>
    /\ framesRead = << >>
    /\ cropIn = << >>
    /\ readAttempts = 0
    /\ failedReads = 0
    /\ releaseCalls = 0
    /\ cv2HasNamedWindows \in BOOLEAN
    /\ frameSeq = 0

\* An uncaught exception leaves the generator and main: no line after it runs.
Raise(e) ==
    /\ pc' = "crashed"
    /\ err' = e

\* line 44, 47 (first next) and line 21: cv2.namedWindows("Cam").  cv2 is not
\* part of the repository: the binding either resolves the attribute or the
\* lookup raises AttributeError before the camera is touched (OpenCV names the
\* function namedWindow).  Both outcomes are kept.
NamedWindows ==
    /\ pc = "L21"
    /\ IF cv2HasNamedWindows
       THEN pc' = "L22" /\ err' = err
       ELSE Raise("AttributeError")
    /\ UNCHANGED <<cam, mode, works, frame, string, res, shown, delivered,
                   framesRead, cropIn, readAttempts, failedReads, releaseCalls,
                   cv2HasNamedWindows, frameSeq, wpVars>>

\* line 22: cam = cv2.VideoCapture(0); the device is acquired or it is not
VideoCapture ==
    /\ pc = "L22"
    /\ \/ \E m \in Modes : cam' = "open" /\ mode' = m
       \/ cam' = "failed" /\ mode' = mode
    /\ pc' = "L24"
    /\ UNCHANGED <<works, frame, string, res, shown, err, delivered, framesRead,
                   cropIn, readAttempts, failedReads, releaseCalls,
                   cv2HasNamedWindows, frameSeq, wpVars>>

\* line 24: if not cam.isOpened()
NotOpenedAlwaysFalse(c) == FALSE

NotOpened(c) == c # "open"

\* line 24-25: exit(-1) raises SystemExit
CheckOpened ==
    /\ pc = "L24"
    /\ IF NotOpened(cam)
       THEN pc' = "exited" /\ err' = "SystemExit"
       ELSE pc' = "L27" /\ err' = err
    /\ UNCHANGED <<cam, mode, works, frame, string, res, shown, delivered,
                   framesRead, cropIn, readAttempts, failedReads, releaseCalls,
                   cv2HasNamedWindows, frameSeq, wpVars>>

\* works, frame = cam.read(): a frame of the camera's resolution, or (False, None).
\* A capture that is not open has no frame to give.
CamRead(next) ==
    /\ readAttempts < MaxReads
    /\ readAttempts' = readAttempts + 1
    /\ \/ /\ cam = "open"
          /\ \E f \in CameraFrames(mode) :
                /\ frame' = f
                /\ framesRead' = Append(framesRead, f)
          /\ works' = TRUE
          /\ failedReads' = failedReads
       \/ /\ works' = FALSE
          /\ frame' = None
          /\ failedReads' = failedReads + 1
          /\ framesRead' = framesRead
    /\ pc' = next
    /\ frameSeq' = readAttempts + 1
    /\ UNCHANGED <<cam, mode, string, res, shown, err, delivered, cropIn,
                   releaseCalls, cv2HasNamedWindows, wpVars>>

\* line 27
FirstRead == pc = "L27" /\ CamRead("L29")

\* line 29: while works
LoopCond(w) == w

LoopTest ==
    /\ pc = "L29"
    /\ pc' = IF LoopCond(works) THEN "L30" ELSE "L39"
    /\ UNCHANGED <<cam, mode, works, frame, string, res, shown, err, delivered,
                   framesRead, cropIn, readAttempts, failedReads, releaseCalls,
                   cv2HasNamedWindows, frameSeq, wpVars>>

\* line 30: frame = crop_frame(frame)
Crop ==
    /\ pc = "L30"
    /\ cropIn' = Append(cropIn, frame)
    /\ frame' = crop_frame(frame)
    /\ pc' = "L32"
    /\ UNCHANGED <<cam, mode, works, string, res, shown, err, delivered,
                   framesRead, readAttempts, failedReads, releaseCalls,
                   cv2HasNamedWindows, frameSeq, wpVars>>

\* line 32-33: what runs after cv2.imshow is the read of the next frame
AfterImShowNoRead == "L35"

AfterImShow == "L33"

\* line 32: cv2.imshow("Cam", frame); imshow asserts that the image is not empty
ImShow ==
    /\ pc = "L32"
    /\ IF Size(frame) = 0
       THEN Raise("cv2.error") /\ shown' = shown
       ELSE pc' = AfterImShow /\ err' = err /\ shown' = frame
    /\ UNCHANGED <<cam, mode, works, frame, string, res, delivered, framesRead,
                   cropIn, readAttempts, failedReads, releaseCalls,
                   cv2HasNamedWindows, frameSeq, wpVars>>

\* line 33
LoopRead == pc = "L33" /\ CamRead("L35")

\* line 35: string = img_to_string(frame)
Serialize ==
    /\ pc = "L35"
    /\ IF ArrayToStringRaises(frame)
       THEN Raise("AttributeError") /\ string' = string
       ELSE pc' = "L36" /\ err' = err /\ string' = img_to_string(frame)
    /\ UNCHANGED <<cam, mode, works, frame, res, shown, delivered, framesRead,
                   cropIn, readAttempts, failedReads, releaseCalls,
                   cv2HasNamedWindows, frameSeq, wpVars>>

\* line 36: res = hash(string); prev is the value res holds from the pull before
ComputeResChained(s, prev) == hash(s \o prev)

ComputeRes(s, prev) == hash(s)

Hash ==
    /\ pc = "L36"
    /\ res' = ComputeRes(string, res)
    /\ pc' = "L37"
    /\ UNCHANGED <<cam, mode, works, frame, string, shown, err, delivered,
                   framesRead, cropIn, readAttempts, failedReads, releaseCalls,
                   cv2HasNamedWindows, frameSeq, wpVars>>

\* line 47: print(next(generator)): each value is printed as it is yielded
DeliverNewestFirst(d, r) == <<r>> \o d

Deliver(d, r) == Append(d, r)

\* line 37 and 47: yield res; main prints it and calls next(generator) again
Yield ==
    /\ pc = "L37"
    /\ delivered' = Deliver(delivered,
                            [frame |-> frame, string |-> string, digest |-> res,
                             seq |-> frameSeq, reads |-> readAttempts])
    /\ pc' = "L29"
    /\ UNCHANGED <<cam, mode, works, frame, string, res, shown, err, framesRead,
                   cropIn, readAttempts, failedReads, releaseCalls,
                   cv2HasNamedWindows, frameSeq, wpVars>>

\* line 39: cam.release()
AfterReleaseReadAgain == "L27"

AfterRelease == "L40"

Release ==
    /\ pc = "L39"
    /\ cam' = "released"
    /\ releaseCalls' = releaseCalls + 1
    /\ pc' = AfterRelease
    /\ UNCHANGED <<mode, works, frame, string, res, shown, err, delivered,
                   framesRead, cropIn, readAttempts, failedReads,
                   cv2HasNamedWindows, frameSeq, wpVars>>

\* line 40: cv2.destroyAllWindows(); the generator returns and next() on line 47
\* raises StopIteration, which main does not catch
DestroyAllWindows ==
    /\ pc = "L40"
    /\ shown' = None
    /\ Raise("StopIteration")
    /\ UNCHANGED <<cam, mode, works, frame, string, res, delivered, framesRead,
                   cropIn, readAttempts, failedReads, releaseCalls,
                   cv2HasNamedWindows, frameSeq, wpVars>>

\* The operator interrupts the process (KeyboardInterrupt on whatever line runs).
\* Neither main nor the generator has a handler or a finally clause: the
\* exception unwinds both and no further line of randlava.py runs.
Interrupt ==
    /\ pc \notin Terminal
    /\ pc' = "interrupted"
    /\ err' = "KeyboardInterrupt"
    /\ UNCHANGED <<cam, mode, works, frame, string, res, shown, delivered,
                   framesRead, cropIn, readAttempts, failedReads, releaseCalls,
                   cv2HasNamedWindows, frameSeq, wpVars>>

Next ==
    \/ NamedWindows
    \/ VideoCapture
    \/ CheckOpened
    \/ FirstRead
    \/ LoopTest
    \/ Crop
    \/ ImShow
    \/ LoopRead
    \/ Serialize
    \/ Hash
    \/ Yield
    \/ Release
    \/ DestroyAllWindows
    \/ Interrupt

Spec == Init /\ [][Next]_vars

----------------------------------------------------------------------------
(* macos_wallpaper_shuffle.py: main, line 41-118.  img_name_buf (line 61,   *)
(* 77) only pads the printed file name and is left out.                    *)

\* randlava.py is not running.
LavaOff ==
    /\ pc = "off"
    /\ cam = "none"
    /\ mode = <<0, 0>>
    /\ works = FALSE
    /\ frame = None
    /\ string = ""
    /\ res = ""
    /\ shown = None
    /\ err = ""
    /\ delivered = << >>
    /\ framesRead = << >>
    /\ cropIn = << >>
    /\ readAttempts = 0
    /\ failedReads = 0
    /\ releaseCalls = 0
    /\ cv2HasNamedWindows = FALSE
    /\ frameSeq = 0

\* line 42: the arguments are parsed; the directory is in some state
InitW ==
    /\ LavaOff
    /\ wpc = "W44"
    /\ restore \in BOOLEAN
    /\ analyze \in BOOLEAN
    /\ current_wallpaper = "unset"
    /\ desktop = "initial.png"
    /\ dirExists \in BOOLEAN
    /\ dir \in SUBSET ImageNames
    /\ (~dirExists => dir = {})
    /\ images = {}
    /\ total_wallpapers = 0
    /\ image = "unset"
    /\ wallpaper_counter = 0
    /\ img_counts = NoCounts
    /\ werr = ""
    /\ waited = TRUE
    /\ looped = FALSE
    /\ restoreCalls = 0
    /\ interrupts = 0

\* The lines inside the try statement (line 68-88).
TryBody == {"W70", "W73", "W77", "W82", "W88"}

\* The lines of the while loop (line 67-96).
LoopLines == TryBody \cup {"W91", "W95"}

\* An exception no handler catches ends main: no later line runs.
WRaise(e) ==
    /\ wpc' = "ended"
    /\ werr' = e

\* An exception raised inside the try body goes to `except Exception` (line 94).
WCaught == wpc' = "W95" /\ werr' = werr

\* line 44-46
CheckPath ==
    /\ wpc = "W44"
    /\ IF ~dirExists THEN WRaise("ValueError") ELSE wpc' = "W48" /\ werr' = werr
    /\ UNCHANGED <<lavaVars, restore, analyze, current_wallpaper, desktop,
                   dirExists, dir, images, total_wallpapers, image,
                   wallpaper_counter, img_counts, waited, looped, restoreCalls,
                   interrupts>>

\* line 48-51
SaveWallpaper ==
    /\ wpc = "W48"
    /\ current_wallpaper' = IF restore THEN desktop ELSE current_wallpaper
    /\ wpc' = "W53"
    /\ UNCHANGED <<lavaVars, restore, analyze, desktop, dirExists, dir, images,
                   total_wallpapers, image, wallpaper_counter, img_counts, werr,
                   waited, looped, restoreCalls, interrupts>>

\* line 53-58: os.listdir raises if the directory is gone
ListImages ==
    /\ wpc = "W53"
    /\ IF ~dirExists
       THEN WRaise("FileNotFoundError") /\ UNCHANGED <<images, total_wallpapers>>
       ELSE /\ images' = dir
            /\ total_wallpapers' = Cardinality(dir)
            /\ IF Cardinality(dir) = 0
               THEN WRaise("ValueError")
               ELSE wpc' = "W60" /\ werr' = werr
    /\ UNCHANGED <<lavaVars, restore, analyze, current_wallpaper, desktop,
                   dirExists, dir, image, wallpaper_counter, img_counts, waited,
                   looped, restoreCalls, interrupts>>

\* line 60-67: the counters, the start notification (notify runs terminal-notifier
\* with check=True and raises when that fails), then the loop is entered
Setup ==
    /\ wpc = "W60"
    /\ wallpaper_counter' = 0
    /\ img_counts' = NoCounts
    /\ \/ wpc' = "W70" /\ werr' = werr /\ looped' = TRUE
       \/ WRaise("CalledProcessError") /\ looped' = looped
    /\ UNCHANGED <<lavaVars, restore, analyze, current_wallpaper, desktop,
                   dirExists, dir, images, total_wallpapers, image, waited,
                   restoreCalls, interrupts>>

\* line 70: random.choice raises IndexError on an empty list
Choice ==
    /\ wpc = "W70"
    /\ waited' = FALSE
    /\ IF images = {}
       THEN WCaught /\ image' = image
       ELSE /\ wallpaper_counter < MaxShuffles
            /\ \E n \in images : image' = n
            /\ wpc' = "W73" /\ werr' = werr
    /\ UNCHANGED <<lavaVars, restore, analyze, current_wallpaper, desktop,
                   dirExists, dir, images, total_wallpapers, wallpaper_counter,
                   img_counts, looped, restoreCalls, interrupts>>

\* line 73-74: Finder sets the picture, or the Apple event fails
SetWallpaper ==
    /\ wpc = "W73"
    /\ \/ desktop' = image /\ wpc' = "W77" /\ werr' = werr
       \/ desktop' = desktop /\ WCaught
    /\ UNCHANGED <<lavaVars, restore, analyze, current_wallpaper, dirExists,
                   dir, images, total_wallpapers, image, wallpaper_counter,
                   img_counts, waited, looped, restoreCalls, interrupts>>

\* line 77-79
Count ==
    /\ wpc = "W77"
    /\ wallpaper_counter' = wallpaper_counter + 1
    /\ img_counts' = [img_counts EXCEPT ![image] = @ + 1]
    /\ wpc' = "W82"
    /\ UNCHANGED <<lavaVars, restore, analyze, current_wallpaper, desktop,
                   dirExists, dir, images, total_wallpapers, image, werr, waited,
                   looped, restoreCalls, interrupts>>

\* line 82-86: the list is read again; a changed total is notified, then stored
Refresh ==
    /\ wpc = "W82"
    /\ IF ~dirExists
       THEN WCaught /\ UNCHANGED <<images, total_wallpapers>>
       ELSE /\ images' = dir
            /\ IF total_wallpapers # Cardinality(dir)
               THEN \/ /\ total_wallpapers' = Cardinality(dir)
                       /\ wpc' = "W88" /\ werr' = werr
                    \/ /\ total_wallpapers' = total_wallpapers
                       /\ WCaught
               ELSE /\ total_wallpapers' = total_wallpapers
                    /\ wpc' = "W88" /\ werr' = werr
    /\ UNCHANGED <<lavaVars, restore, analyze, current_wallpaper, desktop,
                   dirExists, dir, image, wallpaper_counter, img_counts, waited,
                   looped, restoreCalls, interrupts>>

\* line 88: time.sleep(args.interval), then the next iteration
Sleep ==
    /\ wpc = "W88"
    /\ waited' = TRUE
    /\ wpc' = "W70"
    /\ UNCHANGED <<lavaVars, restore, analyze, current_wallpaper, desktop,
                   dirExists, dir, images, total_wallpapers, image,
                   wallpaper_counter, img_counts, werr, looped, restoreCalls,
                   interrupts>>

\* line 90: the operator interrupts a line of the try body
InterruptInTry ==
    /\ wpc \in TryBody
    /\ interrupts < MaxInterrupts
    /\ interrupts' = interrupts + 1
    /\ wpc' = "W91"
    /\ UNCHANGED <<lavaVars, restore, analyze, current_wallpaper, desktop,
                   dirExists, dir, images, total_wallpapers, image,
                   wallpaper_counter, img_counts, werr, waited, looped,
                   restoreCalls>>

\* line 91-92: print, break
Break ==
    /\ wpc = "W91"
    /\ wpc' = "W98"
    /\ UNCHANGED <<lavaVars, restore, analyze, current_wallpaper, desktop,
                   dirExists, dir, images, total_wallpapers, image,
                   wallpaper_counter, img_counts, werr, waited, looped,
                   restoreCalls, interrupts>>

\* line 95-96: the error is notified; continue.  An exception raised by notify
\* here is raised inside a handler: no clause of the same try catches it.
HandleError ==
    /\ wpc = "W95"
    /\ \/ wpc' = "W70" /\ werr' = werr
       \/ WRaise("CalledProcessError")
    /\ UNCHANGED <<lavaVars, restore, analyze, current_wallpaper, desktop,
                   dirExists, dir, images, total_wallpapers, image,
                   wallpaper_counter, img_counts, waited, looped, restoreCalls,
                   interrupts>>

\* The operator interrupts a line outside the try body (before the loop, in a
\* handler, after the loop): KeyboardInterrupt is not caught.
InterruptOutside ==
    /\ wpc \notin TryBody \cup {"ended", "off"}
    /\ interrupts < MaxInterrupts
    /\ interrupts' = interrupts + 1
    /\ WRaise("KeyboardInterrupt")
    /\ UNCHANGED <<lavaVars, restore, analyze, current_wallpaper, desktop,
                   dirExists, dir, images, total_wallpapers, image,
                   wallpaper_counter, img_counts, waited, looped, restoreCalls>>

\* line 98-101
Restore ==
    /\ wpc = "W98"
    /\ IF restore
       THEN desktop' = current_wallpaper /\ restoreCalls' = restoreCalls + 1
       ELSE desktop' = desktop /\ restoreCalls' = restoreCalls
    /\ wpc' = "W103"
    /\ UNCHANGED <<lavaVars, restore, analyze, current_wallpaper, dirExists,
                   dir, images, total_wallpapers, image, wallpaper_counter,
                   img_counts, werr, waited, looped, interrupts>>

\* line 103
AnalyzeTest ==
    /\ wpc = "W103"
    /\ wpc' = IF analyze THEN "W104" ELSE "W117"
    /\ UNCHANGED <<lavaVars, restore, analyze, current_wallpaper, desktop,
                   dirExists, dir, images, total_wallpapers, image,
                   wallpaper_counter, img_counts, werr, waited, looped,
                   restoreCalls, interrupts>>

\* len(img_counts): the keys of the defaultdict
Used(c) == { n \in ImageNames : c[n] > 0 }

\* line 104-115: sum(img_counts.values()) / len(img_counts)
Analyze ==
    /\ wpc = "W104"
    /\ IF Cardinality(Used(img_counts)) = 0
       THEN WRaise("ZeroDivisionError")
       ELSE wpc' = "W117" /\ werr' = werr
    /\ UNCHANGED <<lavaVars, restore, analyze, current_wallpaper, desktop,
                   dirExists, dir, images, total_wallpapers, image,
                   wallpaper_counter, img_counts, waited, looped, restoreCalls,
                   interrupts>>

\* line 117-118: sys.exit(0)
Exit ==
    /\ wpc = "W117"
    /\ WRaise("SystemExit")
    /\ UNCHANGED <<lavaVars, restore, analyze, current_wallpaper, desktop,
                   dirExists, dir, images, total_wallpapers, image,
                   wallpaper_counter, img_counts, waited, looped, restoreCalls,
                   interrupts>>

\* The environment: files are added to or removed from the directory, or the
\* directory itself is removed or created again, while the script runs.
ChangeDir ==
    /\ wpc \notin {"ended", "off"}
    /\ \/ /\ dirExists
          /\ \E d \in SUBSET ImageNames : d # dir /\ dir' = d
          /\ dirExists' = dirExists
       \/ /\ dirExists' = ~dirExists
          /\ dir' = {}
    /\ UNCHANGED <<lavaVars, wpc, restore, analyze, current_wallpaper, desktop,
                   images, total_wallpapers, image, wallpaper_counter,
                   img_counts, werr, waited, looped, restoreCalls, interrupts>>

\* The steps of the script itself.
MainStep ==
    \/ CheckPath
    \/ SaveWallpaper
    \/ ListImages
    \/ Setup
    \/ Choice
    \/ SetWallpaper
    \/ Count
    \/ Refresh
    \/ Sleep
    \/ Break
    \/ HandleError
    \/ Restore
    \/ AnalyzeTest
    \/ Analyze
    \/ Exit

NextW ==
    \/ MainStep
    \/ InterruptInTry
    \/ InterruptOutside
    \/ ChangeDir

SpecW == InitW /\ [][NextW]_vars

\* The script is a sequential program that keeps running: a line that can run
\* does run.  The operator and the directory are under no such obligation.
SpecWFair == SpecW /\ WF_vars(MainStep)

----------------------------------------------------------------------------
(* Properties *)

\* The camera was acquired at some point of the session.
Acquired == cam \in {"open", "released"}

SameShape(a, b) == a.h = b.h /\ a.w = b.w

\* C1: whenever the operator has interrupted the process after the camera was
\* opened, cam.release() has been performed: the device is not still held when
\* the stream is discarded.
C1_InterruptReleasesCamera ==
    (pc = "interrupted" /\ Acquired) => (releaseCalls >= 1 /\ cam = "released")

C3_FatalReleasesExactlyOnce ==
    (failedReads > 0 /\ framesRead # << >> /\ pc \in {"crashed", "exited"})
        => releaseCalls = 1

\* C4: every delivered digest is digest(serialize(extract(f))) of the frame f read
\* in the same pull.
C4_DigestOfCroppedFrame ==
    \A i \in DOMAIN delivered :
        delivered[i].digest = hash(img_to_string(crop_frame(delivered[i].frame)))

\* C5: whenever a pull has completed (a digest was delivered and the generator
\* is back at its loop test), every frame captured so far, the first included,
\* has its digest: the i-th digest belongs to the i-th frame read.
C5_OneDigestPerFrame ==
    (pc = "L29" /\ delivered # << >>) =>
        /\ Len(delivered) = Len(framesRead)
        /\ \A i \in DOMAIN delivered : delivered[i].frame = framesRead[i]

\* C6: if the camera could not be opened, the stream fails at start: the process
\* only performs the check and exits, no read is attempted, no frame is read,
\* no digest is delivered and no device is acquired.
C6_StartFailure ==
    cam = "failed" =>
        /\ pc \in {"L24", "exited", "interrupted"}
        /\ readAttempts = 0
        /\ framesRead = << >>
        /\ delivered = << >>

\* C6 witness: the open failed and the process has exited.
C6_Witness == cam = "failed" /\ pc = "exited" /\ err = "SystemExit"

\* C7: once cam.release() has been performed, no step reads from the camera,
\* delivers a digest or reopens the device.
C7_ClosedIsTerminal ==
    [][releaseCalls > 0 =>
         /\ readAttempts' = readAttempts
         /\ delivered' = delivered
         /\ cam' = "released"]_vars

\* C7 witness: the camera was released and the session ran to its end.
C7_Witness == releaseCalls = 1 /\ cam = "released" /\ err = "StopIteration"

\* C8: when crop_frame has been given a frame smaller than the rectangle, it has
\* failed with an out-of-bounds error (and so returned no Region).
C8_OutOfBoundsRaised ==
    (cropIn # << >> /\ ~Fits(cropIn[Len(cropIn)]))
        => (pc = "crashed" /\ err = "OutOfBounds")

\* C9: two pixel arrays of equal shape that differ in a sample are serialized
\* to different strings and hashed to different digests.
C9_SerializerInjective ==
    \A i, j \in DOMAIN delivered :
        (SameShape(delivered[i].frame, delivered[j].frame)
            /\ delivered[i].frame # delivered[j].frame)
        => (delivered[i].string # delivered[j].string
            /\ delivered[i].digest # delivered[j].digest)

C11_CaptureOrder ==
    /\ \A i, j \in DOMAIN delivered :
          i < j => delivered[i].seq < delivered[j].seq
    /\ \A i \in DOMAIN delivered : delivered[i].seq = delivered[i].reads

\* C11 witness: two digests have been delivered, from two different reads.
C11_Witness ==
    /\ Len(delivered) >= 2
    /\ delivered[1].seq = 2
    /\ delivered[2].seq = 3

\* C12: every delivered digest comes from a frame that a successful cam.read()
\* returned, and the read that reported failure has no digest.
C12_NoDigestFromFailedRead ==
    /\ \A i \in DOMAIN delivered :
          /\ ~delivered[i].frame.none
          /\ \E k \in DOMAIN framesRead : framesRead[k] = delivered[i].frame
    /\ failedReads > 0 =>
          \A i \in DOMAIN delivered : delivered[i].seq # readAttempts

\* C12 witness: a read of the loop reported failure after a digest had been
\* delivered, and the generator was left by the exception on line 35.
C12_Witness ==
    /\ failedReads = 1
    /\ ~works
    /\ frame = None
    /\ Len(delivered) >= 1
    /\ err = "AttributeError"

\* C13: run with --restore and the initial wallpaper saved, a process that
\* entered the shuffle loop and has ended after one operator interrupt
\* has set the desktop picture back to the saved wallpaper.
C13_RestoredOnExit ==
    (/\ wpc = "ended"
     /\ looped
     /\ restore
     /\ current_wallpaper # "unset"
     /\ interrupts = 1)
        => (restoreCalls >= 1 /\ desktop = current_wallpaper)

\* The loop holds an empty image list.
Stuck == wpc \in LoopLines /\ images = {}

\* The directory holds images.
Available == dirExists /\ dir # {}

\* C14 (recovery): the loop does not stay for ever with an empty image list
\* while the directory holds images: it refreshes the list, or it is left.
C14_Recovers == []<>(~(Stuck /\ Available))

\* C14 (waiting): every attempt of the loop begins after the interval of the
\* attempt before it was waited, also when that attempt raised an error.
C14_Waits ==
    [][(wpc = "W70" /\ wpc' \in {"W73", "W95"}) => waited]_vars

\* C15: when the --analyze computation on line 104 is reached, img_counts has
\* at least one key.
C15_AnalysisDefined ==
    wpc = "W104" => Used(img_counts) # {}

====
